---- MODULE Spec2Model ----
(***************************************************************************)
(* The tool-calling loop of BaseChatProvider (lib/llm/base-provider.ts),   *)
(* together with the parts of the provider adapters (providers/google.ts,  *)
(* providers/ollama.ts) and of the tool client (tools/tool-client.ts,      *)
(* tools/base-fastmcp-client.ts) that decide how one chat request runs.    *)
(*                                                                         *)
(* One request is modelled.  Every `await` of _toolCallingLoop is a value  *)
(* of pc; an action is the code that runs between two awaits.              *)
(***************************************************************************)
EXTENDS Integers, Sequences, FiniteSets, TLC

(***************************************************************************)
(* Bounds of the model.                                                    *)
(***************************************************************************)
MaxToolCallsCfg == 2
MaxBatch == 2
MaxTok == 1
MaxExtraTok == 1
MaxNow == 1
MaxRequestedCalls == 3
MaxChunks == 2
MaxCallers == 2
MaxSelectorLen == 5
MaxMessages == 3

(***************************************************************************)
(* Program constants.                                                      *)
(***************************************************************************)
DefaultMaxToolCalls == 5

(***************************************************************************)
(* Optional values: a JavaScript `undefined` is None, a value v is         *)
(* Some(v).                                                                *)
(***************************************************************************)
None == << >>
Some(v) == << v >>
IsSome(o) == o # << >>
Get(o) == o[1]

Undefined == "undefined"
NullContent == << >>
Str(s) == << s >>

VARIABLES
  isStreaming,      \* _toolCallingLoop's isStreaming argument
  maxToolCalls,     \* config.maxToolCalls (None when not configured)
  mcpServerUrl,     \* TRUE iff config.mcpServerUrl is set
  family,           \* which adapter subclass runs: "google" or "ollama"
  serverType,       \* what ToolClient.detectServerType settles on for the URL
  pc,               \* where the loop is suspended
  toolCallCount,
  currentMessages,
  totalUsage,
  totalDuration,
  tools,            \* the tools argument of the adapter call in flight
  llmCalls,         \* number of adapter invocations made so far
  timers,           \* ids of deadline timers armed and neither fired nor cleared
  aborted,          \* ids of invocations whose AbortController was aborted
  calls,            \* the promises of the current tool batch, by position
  completionOrder,  \* positions of the batch in the order the server settled them
  turnUsages,       \* usage the adapter reported for each answered turn, in order
  result,           \* what the loop returned or threw
  finalUsage,       \* the returned finalUsagePromise
  finalDuration,    \* the returned finalDurationPromise
  now,              \* Date.now()
  transport,        \* ids of invocations whose provider request or stream read is in flight
  clientGone,       \* TRUE once the HTTP client has dropped the request
  providerStream,   \* chunks of the terminal turn's provider stream that have arrived
  providerState,    \* "none", "sending", "ended" or "failed"
  pumped,           \* number of chunks the adapter has taken from the stream iterator
  textStream,       \* every text the adapter has enqueued into StreamingResult.stream
  streamState,      \* "none", "open", "closed" or "errored"
  output,           \* frames written to the HTTP response body
  muxPc,            \* where the stream multiplexer stands
  deadlinePassed,   \* TRUE once timeout_ms has gone by since the terminal invocation began
  toolClientInstances, \* the registry Map: URL -> index of its ToolClient, 0 when absent
  toolClients,      \* every ToolClient object constructed so far
  fastMCPClients,   \* every FastMCP client object constructed so far
  mcpTransports,    \* every MCP transport constructed so far
  callers,          \* the asynchronous operations running on tool clients
  request,          \* the HTTP request the chat route was called with
  definitionInForce,\* which parseModelSelection of model-service.ts handleChat calls
  routePc,          \* where the chat route stands with the request
  response,         \* the route's answer, and the selection handleChat parsed
  callerMessages,   \* the message objects of the list passed to the loop
  systemPrompt,     \* config.systemPrompt (None when not configured)
  apiRequest        \* what the adapter last prepared for the provider

cfgVars == << isStreaming, maxToolCalls, mcpServerUrl, family, serverType >>
vars == << isStreaming, maxToolCalls, mcpServerUrl, family, serverType, pc,
           toolCallCount, currentMessages, totalUsage, totalDuration, tools,
           llmCalls, timers, aborted, calls, completionOrder, turnUsages,
           result, finalUsage, finalDuration, now, transport, clientGone,
           providerStream, providerState, pumped, textStream, streamState,
           output, muxPc, deadlinePassed, toolClientInstances, toolClients,
           fastMCPClients, mcpTransports, callers, request,
           definitionInForce, routePc, response, callerMessages,
           systemPrompt, apiRequest >>
adapterVars == << callerMessages, systemPrompt, apiRequest >>
routeVars == << request, definitionInForce, routePc, response >>
clientVars == << toolClientInstances, toolClients, fastMCPClients,
                 mcpTransports, callers >>
streamVars == << providerStream, providerState, pumped, textStream,
                 streamState, output, muxPc, deadlinePassed >>
loopVars == << pc, toolCallCount, currentMessages, totalUsage, totalDuration,
               tools, llmCalls, timers, aborted, calls, completionOrder,
               turnUsages, result, finalUsage, finalDuration, now, clientGone >>

(***************************************************************************)
(* Data.                                                                   *)
(***************************************************************************)
Families == {"google", "ollama"}
ServerTypes == {"fastmcp-sse", "fastmcp-streamablehttp", "fastapi"}
ToolNames == {"get_current_time"}
Urls == {"http://mcp-a"}
Callers == 1 .. MaxCallers
\* no provider request prepared yet
NoApiRequest == [messages |-> << >>, systemInstruction |-> << >>]
\* nothing answered and nothing parsed yet
NoResponse == [status |-> 0, error |-> "", provider |-> << >>, model |-> << >>]
\* an operation slot nobody has started yet
IdleCaller == [kind |-> "none", op |-> "none", pc |-> "idle", tc |-> 0,
               tr |-> 0, ret |-> "none"]
ValidArgs == "{}"
ArgStrings == {ValidArgs, Undefined}
ToolValues == {[isString |-> TRUE, v |-> "2025-01-01T00:00:00Z"]}
TokCounts == 1 .. MaxTok

ZeroUsage == [prompt_tokens |-> 0, completion_tokens |-> 0, total_tokens |-> 0]
ZeroDuration == [total_duration |-> 0, load_duration |-> 0,
                 prompt_eval_duration |-> 0, eval_duration |-> 0]
UnitDuration == [total_duration |-> 1, load_duration |-> 0,
                 prompt_eval_duration |-> 0, eval_duration |-> 1]

UserMessage == [role |-> "user", content |-> Str("hi"), tool_calls |-> << >>,
                tool_call_id |-> None]

\* variant: `||` in place of `??`, so that a configured 0 falls back to 5
MAX_TOOL_CALLS_Or ==
  IF maxToolCalls = None \/ maxToolCalls = Some(0)
    THEN DefaultMaxToolCalls ELSE Get(maxToolCalls)

\* const MAX_TOOL_CALLS = this.config.maxToolCalls ?? 5
MAX_TOOL_CALLS ==
  IF maxToolCalls = None THEN DefaultMaxToolCalls ELSE Get(maxToolCalls)

\* JSON.parse(args) succeeds
JSONParseOk(args) == args # Undefined

\* some assistant message carries a tool call whose arguments do not parse
HasUnparsableArgs(msgs) ==
  \E i \in 1 .. Len(msgs) :
    /\ msgs[i].role = "assistant"
    /\ \E j \in 1 .. Len(msgs[i].tool_calls) :
         ~ JSONParseOk(msgs[i].tool_calls[j].args)

\* usage the Ollama adapter builds from prompt_eval_count and eval_count
OllamaUsage(p, c) ==
  [prompt_tokens |-> p, completion_tokens |-> c, total_tokens |-> p + c]

\* usage the Google adapter copies from usageMetadata
GoogleUsage(p, c, t) ==
  [prompt_tokens |-> p, completion_tokens |-> c, total_tokens |-> t]

\* the usage values an adapter can hand to the loop for one turn
UsageReports ==
  IF family = "ollama"
    THEN { Some(OllamaUsage(p, c)) : p \in TokCounts, c \in TokCounts }
    ELSE { None } \cup
         { Some(GoogleUsage(m[1], m[2], m[1] + m[2] + m[3])) :
             m \in TokCounts \X TokCounts \X (0 .. MaxExtraTok) }

DurationReports == { None, Some(UnitDuration) }

\* the id an adapter gives the index-th tool call of a turn
ToolCallId(name, t, index) ==
  IF family = "google" /\ ~ isStreaming
    THEN << "tool_call", t, index >>
    ELSE << name, t, index >>

\* the tool_calls list an adapter builds from the model's function calls
MakeToolCalls(fcs, t) ==
  [ i \in 1 .. Len(fcs) |->
      [id |-> ToolCallId(fcs[i].name, t, i - 1), name |-> fcs[i].name,
       args |-> fcs[i].args] ]

\* number of tool calls the model has requested in this conversation
RECURSIVE RequestedCalls(_)
RequestedCalls(msgs) ==
  IF msgs = << >> THEN 0
  ELSE Len(msgs[Len(msgs)].tool_calls) + RequestedCalls(SubSeq(msgs, 1, Len(msgs) - 1))

FunctionCalls ==
  UNION { [ 1 .. k -> [name : ToolNames, args : ArgStrings] ] : k \in 1 .. MaxBatch }

\* variant: total_tokens assigned instead of added
AddUsage_Assign(acc, u) ==
  IF IsSome(u)
    THEN [prompt_tokens |-> acc.prompt_tokens + Get(u).prompt_tokens,
          completion_tokens |-> acc.completion_tokens + Get(u).completion_tokens,
          total_tokens |-> Get(u).total_tokens]
    ELSE acc

AddUsage(acc, u) ==
  IF IsSome(u)
    THEN [prompt_tokens |-> acc.prompt_tokens + Get(u).prompt_tokens,
          completion_tokens |-> acc.completion_tokens + Get(u).completion_tokens,
          total_tokens |-> acc.total_tokens + Get(u).total_tokens]
    ELSE acc

AddDuration(acc, d) ==
  IF IsSome(d)
    THEN [total_duration |-> acc.total_duration + Get(d).total_duration,
          load_duration |-> acc.load_duration + Get(d).load_duration,
          prompt_eval_duration |->
            acc.prompt_eval_duration + Get(d).prompt_eval_duration,
          eval_duration |-> acc.eval_duration + Get(d).eval_duration]
    ELSE acc

NoResult == [kind |-> "none", content |-> NullContent, error |-> "",
             usage |-> ZeroUsage, duration |-> ZeroDuration]
Thrown(e) == [NoResult EXCEPT !.kind = "error", !.error = e]

(***************************************************************************)
(* Promises of a tool batch and of the streaming result.                   *)
(***************************************************************************)
Pending == [state |-> "pending", content |-> NullContent]
Settled(c) == [state |-> "settled", content |-> c]

NoPromise == [state |-> "none", value |-> ZeroUsage]
PendingUsage == [state |-> "pending", value |-> ZeroUsage]
ResolvedUsage(u) == [state |-> "resolved", value |-> u]
NoDurationPromise == [state |-> "none", value |-> ZeroDuration]
PendingDuration == [state |-> "pending", value |-> ZeroDuration]
ResolvedDuration(d) == [state |-> "resolved", value |-> d]

\* JSON.stringify of a tool result that is not a string
JSONStringify(v) == << "json:", v >>

\* content: typeof result === 'string' ? result : JSON.stringify(result)
ResultContent(r) == IF r.isString THEN Str(r.v) ELSE JSONStringify(r.v)

\* content: `Error: ${error.message}`
ErrorContent(message) == << "Error: " >> \o message

\* the message of the Error BaseFastMCPClient.callTool throws
McpErrorMessage(name, cause) ==
  << IF serverType = "fastmcp-sse" THEN "FastMCP SSE" ELSE "FastMCP StreamableHTTP",
     " server failed to execute tool '", name, "': ", cause >>

\* the message of the Error the plain-HTTP branch of ToolClient.callTool throws
HttpErrorMessage(name, cause) ==
  IF cause = "not ok"
    THEN << "MCP server failed to execute tool '", name, "': ", "Unknown error" >>
    ELSE << cause >>

ToolErrorCauses ==
  IF serverType = "fastapi" THEN {"not ok", "Unexpected token"}
                            ELSE {"tool error"}

ToolErrorMessage(name, cause) ==
  IF serverType = "fastapi" THEN HttpErrorMessage(name, cause)
                            ELSE McpErrorMessage(name, cause)

\* the promise toolCalls.map creates for one tool call: JSON.parse throws
\* inside the try before callTool is reached, otherwise the call is issued
IssueToolCall(tc) ==
  IF JSONParseOk(tc.args)
    THEN Pending
    ELSE Settled(ErrorContent(<< "SyntaxError" >>))

\* toolCalls.map(async ...): every promise of the batch is created, and its
\* call started, before Promise.all is awaited
IssueBatch(tcs) == [ i \in 1 .. Len(tcs) |-> IssueToolCall(tcs[i]) ]

\* positions of a batch whose promise is settled, in increasing order
RECURSIVE SettledPositions(_)
SettledPositions(ps) ==
  IF ps = << >> THEN << >>
  ELSE SettledPositions(SubSeq(ps, 1, Len(ps) - 1)) \o
       (IF ps[Len(ps)].state = "settled" THEN << Len(ps) >> ELSE << >>)

ToolMessage(tc, c) ==
  [role |-> "tool", content |-> c, tool_calls |-> << >>,
   tool_call_id |-> Some(tc.id)]

AssistantMessage(c, tcs) ==
  [role |-> "assistant", content |-> c, tool_calls |-> tcs,
   tool_call_id |-> None]

\* variant: the results in the order the promises settled
PromiseAll_BySettleTime(ps) ==
  [ i \in 1 .. Len(ps) |-> ps[completionOrder[i]].content ]

\* Promise.all: the results by position of the promise, not by settle time
PromiseAll(ps) == [ i \in 1 .. Len(ps) |-> ps[i].content ]

\* variant: only the first result is pushed
ToolResults_FirstOnly(tcs, ps) ==
  << ToolMessage(tcs[1], PromiseAll(ps)[1]) >>

\* the tool messages of a batch, one per tool call, in tool_calls order
ToolResults(tcs, ps) ==
  [ i \in 1 .. Len(tcs) |-> ToolMessage(tcs[i], PromiseAll(ps)[i]) ]

LastBatch == currentMessages[Len(currentMessages)].tool_calls

(***************************************************************************)
(* The provider stream of a streaming turn.  A chunk carries text, tool    *)
(* calls, or neither.                                                      *)
(***************************************************************************)
ChunkTexts == {"he", "llo"}
ChunkCalls == { << [name |-> n, args |-> ValidArgs] >> : n \in ToolNames }
EmptyChunk == [text |-> "", calls |-> << >>]
TextChunk(x) == [text |-> x, calls |-> << >>]
CallChunk(fcs) == [text |-> "", calls |-> fcs]
Chunks ==
  {EmptyChunk} \cup { TextChunk(x) : x \in ChunkTexts }
               \cup { CallChunk(fcs) : fcs \in ChunkCalls }

\* the texts of a sequence of chunks, the empty ones left out
RECURSIVE NonEmptyTexts(_)
NonEmptyTexts(chs) ==
  IF chs = << >> THEN << >>
  ELSE NonEmptyTexts(SubSeq(chs, 1, Len(chs) - 1)) \o
       (IF chs[Len(chs)].text # "" THEN << chs[Len(chs)].text >> ELSE << >>)

\* variant: the chunk already consumed for the classification is not enqueued
OpenStream_DropFirst(first) ==
  /\ providerStream' = << first >>
  /\ providerState' = "sending"
  /\ pumped' = 1
  /\ textStream' = << >>
  /\ streamState' = "open"
  /\ muxPc' = "text"

\* new ReadableStream({ start }): start runs at once and enqueues the text
\* of the first chunk, if it has any, before its first await
OpenStream(first) ==
  /\ providerStream' = << first >>
  /\ providerState' = "sending"
  /\ pumped' = 1
  /\ textStream' = NonEmptyTexts(<< first >>)
  /\ streamState' = "open"
  /\ muxPc' = "text"

(***************************************************************************)
(* The head of the while loop, from the test of toolCallCount up to the    *)
(* next await: the loop throws, awaits getToolsSchema, or arms the         *)
(* deadline timer, calls the adapter and awaits the race.  c is the new    *)
(* toolCallCount and tm the timers pending when the head is reached.       *)
(***************************************************************************)
\* variant: one deadline timer, armed by the first invocation, serves the
\* whole request
InvokeModel_SharedTimer(tm) ==
  /\ llmCalls' = llmCalls + 1
  /\ timers' = tm \cup {1}
  /\ transport' = transport \cup {llmCalls + 1}
  /\ pc' = "model"

InvokeModel(tm) ==
  /\ llmCalls' = llmCalls + 1
  /\ timers' = tm \cup {llmCalls + 1}
  /\ transport' = transport \cup {llmCalls + 1}
  /\ pc' = "model"

\* variant: `<=` in the while condition
LoopHead_LessEq(c, tm) ==
  IF c <= MAX_TOOL_CALLS
    THEN IF mcpServerUrl
           THEN /\ pc' = "discover"
                /\ timers' = tm
                /\ UNCHANGED << tools, llmCalls, result, transport >>
           ELSE /\ InvokeModel(tm)
                /\ tools' = None
                /\ UNCHANGED result
    ELSE /\ pc' = "failed"
         /\ result' = Thrown("MaxIterationsExceeded")
         /\ timers' = tm
         /\ UNCHANGED << tools, llmCalls, transport >>

LoopHead(c, tm) ==
  IF c < MAX_TOOL_CALLS
    THEN IF mcpServerUrl
           THEN /\ pc' = "discover"
                /\ timers' = tm
                /\ UNCHANGED << tools, llmCalls, result, transport >>
           ELSE /\ InvokeModel(tm)
                /\ tools' = None
                /\ UNCHANGED result
    ELSE /\ pc' = "failed"
         /\ result' = Thrown("MaxIterationsExceeded")
         /\ timers' = tm
         /\ UNCHANGED << tools, llmCalls, transport >>

(***************************************************************************)
(* Initial state: a provider has been constructed with its configuration   *)
(* and no request has been made.                                           *)
(***************************************************************************)
CoreInit ==
  /\ isStreaming \in BOOLEAN
  /\ maxToolCalls \in { Some(n) : n \in 0 .. MaxToolCallsCfg }
  /\ mcpServerUrl \in BOOLEAN
  /\ family \in Families
  /\ serverType \in ServerTypes
  /\ pc = "idle"
  /\ toolCallCount = 0
  /\ currentMessages = << >>
  /\ totalUsage = ZeroUsage
  /\ totalDuration = ZeroDuration
  /\ tools = None
  /\ llmCalls = 0
  /\ timers = {}
  /\ aborted = {}
  /\ calls = << >>
  /\ completionOrder = << >>
  /\ turnUsages = << >>
  /\ result = NoResult
  /\ finalUsage = NoPromise
  /\ finalDuration = NoDurationPromise
  /\ now = 0
  /\ transport = {}
  /\ clientGone = FALSE
  /\ providerStream = << >>
  /\ providerState = "none"
  /\ pumped = 0
  /\ textStream = << >>
  /\ streamState = "none"
  /\ output = << >>
  /\ muxPc = "none"
  /\ deadlinePassed = FALSE
  /\ toolClientInstances = [u \in Urls |-> 0]
  /\ toolClients = << >>
  /\ fastMCPClients = << >>
  /\ mcpTransports = << >>
  /\ callers = [c \in Callers |-> IdleCaller]
  /\ apiRequest = NoApiRequest

\* the chat route has handed a well-formed request on to the loop
Init ==
  /\ CoreInit
  /\ request = [json |-> TRUE, selectedModel |-> << "o", ":", "o" >>,
                messages |-> "array"]
  /\ definitionInForce = 1
  /\ routePc = "chat"
  /\ response = [NoResponse EXCEPT !.provider = << "o" >>, !.model = << "o" >>]
  /\ callerMessages = << >>
  /\ systemPrompt = None

(***************************************************************************)
(* chatStreaming / chatNonStreaming, up to the first await of the loop.    *)
(***************************************************************************)
Chat(messages) ==
  /\ pc = "idle"
  /\ IF Len(messages) = 0
       THEN /\ pc' = "failed"
            /\ result' = Thrown("EmptyMessages")
            /\ UNCHANGED << currentMessages, tools, llmCalls, timers, transport >>
       ELSE /\ currentMessages' = messages
            /\ LoopHead(0, timers)
  /\ UNCHANGED << cfgVars, clientVars, routeVars, adapterVars, streamVars, clientGone, toolCallCount, totalUsage, totalDuration, aborted,
                  calls, completionOrder, turnUsages, finalUsage,
                  finalDuration, now >>

\* variant: a discovery that yields no tools ends the request with an error
ToolsSchemaReturns_Throws(t) ==
  /\ pc = "discover"
  /\ IF t = None
       THEN /\ pc' = "failed"
            /\ result' = Thrown("ToolDiscoveryFailed")
            /\ UNCHANGED << tools, llmCalls, timers, transport >>
       ELSE /\ tools' = t
            /\ InvokeModel(timers)
            /\ UNCHANGED result
  /\ completionOrder' = << >>
  /\ UNCHANGED << cfgVars, clientVars, routeVars, adapterVars, streamVars, clientGone, toolCallCount,
                  currentMessages, totalUsage, totalDuration, aborted, calls,
                  turnUsages, finalUsage, finalDuration, now >>

(***************************************************************************)
(* await toolClient.getToolsSchema() returns (a list, or undefined after   *)
(* any failure); the loop arms the timer and calls the adapter.            *)
(***************************************************************************)
ToolsSchemaReturns(t) ==
  /\ pc = "discover"
  /\ tools' = t
  /\ InvokeModel(timers)
  /\ completionOrder' = << >>
  /\ UNCHANGED << cfgVars, clientVars, routeVars, adapterVars, streamVars, clientGone, toolCallCount, currentMessages, totalUsage,
                  totalDuration, aborted, calls, turnUsages,
                  result, finalUsage, finalDuration, now >>

\* the 10 s connect or 15 s listTools timeout of the MCP clients fires
ToolsSchemaTimesOut ==
  /\ pc = "discover"
  /\ serverType # "fastapi"
  /\ tools' = None
  /\ InvokeModel(timers)
  /\ completionOrder' = << >>
  /\ UNCHANGED << cfgVars, clientVars, routeVars, adapterVars, streamVars, clientGone, toolCallCount, currentMessages, totalUsage,
                  totalDuration, aborted, calls, turnUsages,
                  result, finalUsage, finalDuration, now >>

(***************************************************************************)
(* The race settles with the adapter's answer.                             *)
(***************************************************************************)
\* variant: getToolClientInstance is called inside the try of each tool
\* call, so a missing URL is folded like any other tool failure
AnswerToolCalls_FoldsNoUrl(fcs, u, d, t) ==
  /\ pc = "model"
  /\ ~ HasUnparsableArgs(currentMessages)
  /\ RequestedCalls(currentMessages) + Len(fcs) <= MaxRequestedCalls
  /\ t >= now
  /\ now' = t
  /\ totalUsage' = AddUsage(totalUsage, u)
  /\ totalDuration' = AddDuration(totalDuration, d)
  /\ turnUsages' = Append(turnUsages, u)
  /\ currentMessages' =
       Append(currentMessages, AssistantMessage(NullContent, MakeToolCalls(fcs, t)))
  /\ timers' = timers \ {llmCalls}
  /\ calls' = IF mcpServerUrl
                THEN IssueBatch(MakeToolCalls(fcs, t))
                ELSE [ i \in 1 .. Len(fcs) |->
                         Settled(ErrorContent(<< "A server URL must be provided" >>)) ]
  /\ pc' = "tools"
  /\ UNCHANGED result
  /\ completionOrder' = SettledPositions(calls')
  /\ tools' = None
  /\ transport' = transport \ {llmCalls}
  /\ UNCHANGED << cfgVars, clientVars, routeVars, adapterVars, streamVars, clientGone, toolCallCount, llmCalls, aborted, finalUsage,
                  finalDuration >>

\* a ProviderResponse with tool calls
AnswerToolCalls(fcs, u, d, t) ==
  /\ pc = "model"
  /\ ~ HasUnparsableArgs(currentMessages)
  /\ RequestedCalls(currentMessages) + Len(fcs) <= MaxRequestedCalls
  /\ t >= now
  /\ now' = t
  /\ totalUsage' = AddUsage(totalUsage, u)
  /\ totalDuration' = AddDuration(totalDuration, d)
  /\ turnUsages' = Append(turnUsages, u)
  /\ currentMessages' =
       Append(currentMessages, AssistantMessage(NullContent, MakeToolCalls(fcs, t)))
  /\ timers' = timers \ {llmCalls}
  /\ IF mcpServerUrl
       THEN /\ calls' = IssueBatch(MakeToolCalls(fcs, t))
            /\ pc' = "tools"
            /\ UNCHANGED result
       ELSE /\ calls' = << >>
            /\ pc' = "failed"
            /\ result' = Thrown("NoServerUrl")
  /\ completionOrder' = SettledPositions(calls')
  /\ tools' = None
  /\ transport' = transport \ {llmCalls}
  /\ UNCHANGED << cfgVars, clientVars, routeVars, adapterVars, streamVars, clientGone, toolCallCount, llmCalls, aborted, finalUsage,
                  finalDuration >>

\* a ProviderResponse without tool calls
AnswerFinal(c, u, d) ==
  /\ pc = "model"
  /\ ~ HasUnparsableArgs(currentMessages)
  /\ totalUsage' = AddUsage(totalUsage, u)
  /\ totalDuration' = AddDuration(totalDuration, d)
  /\ turnUsages' = Append(turnUsages, u)
  /\ timers' = timers \ {llmCalls}
  /\ pc' = "done"
  /\ result' = [NoResult EXCEPT !.kind = "content",
                                !.content = IF c = NullContent THEN Str("") ELSE c,
                                !.usage = totalUsage',
                                !.duration = totalDuration']
  /\ completionOrder' = << >>
  /\ tools' = None
  /\ transport' = transport \ {llmCalls}
  /\ UNCHANGED << cfgVars, clientVars, routeVars, adapterVars, streamVars, clientGone, toolCallCount, currentMessages, llmCalls, aborted,
                  calls, finalUsage, finalDuration, now >>

\* a StreamingResult: the adapter has built the ReadableStream around the
\* first chunk; the loop clears the timer and returns the stream and two
\* derived promises
AnswerStream(first) ==
  /\ pc = "model"
  /\ isStreaming
  /\ ~ HasUnparsableArgs(currentMessages)
  /\ first.calls = << >>
  /\ timers' = timers \ {llmCalls}
  /\ pc' = "streaming"
  /\ result' = [NoResult EXCEPT !.kind = "stream"]
  /\ finalUsage' = PendingUsage
  /\ finalDuration' = PendingDuration
  /\ OpenStream(first)
  /\ completionOrder' = << >>
  /\ tools' = None
  /\ UNCHANGED << cfgVars, clientVars, routeVars, adapterVars, clientGone, transport, toolCallCount,
                  currentMessages, totalUsage, totalDuration, llmCalls,
                  aborted, calls, turnUsages, now, output, deadlinePassed >>

\* the adapter's promise rejects (_handleGoogleApiError, the catch of the
\* Ollama adapter): the await throws before clearTimeout is reached.  An
\* adapter that finds arguments it cannot JSON.parse while formatting the
\* messages rejects with that error before it contacts the provider.
AdapterFails ==
  /\ pc = "model"
  /\ pc' = "failed"
  /\ result' = Thrown(IF HasUnparsableArgs(currentMessages)
                        THEN "SyntaxError" ELSE "AdapterError")
  /\ completionOrder' = << >>
  /\ tools' = None
  /\ transport' = transport \ {llmCalls}
  /\ UNCHANGED << cfgVars, clientVars, routeVars, adapterVars, streamVars, clientGone, toolCallCount, currentMessages, totalUsage,
                  totalDuration, llmCalls, timers, aborted, calls, turnUsages,
                  finalUsage, finalDuration, now >>

\* variant: the timer aborts the controller but does not reject the race
TimerFires_NoReject(id) ==
  /\ id \in timers
  /\ timers' = timers \ {id}
  /\ aborted' = aborted \cup {id}
  /\ UNCHANGED << pc, result >>
  /\ transport' = IF family = "google" THEN transport \ {id} ELSE transport
  /\ UNCHANGED << cfgVars, clientVars, routeVars, adapterVars, streamVars, clientGone, toolCallCount, currentMessages, totalUsage,
                  totalDuration, tools, llmCalls, calls, completionOrder,
                  turnUsages, finalUsage, finalDuration, now >>

\* a deadline timer fires: it aborts its controller and rejects its promise;
\* the loop throws if it is still awaiting that race
TimerFires(id) ==
  /\ id \in timers
  /\ timers' = timers \ {id}
  /\ aborted' = aborted \cup {id}
  /\ IF pc = "model" /\ id = llmCalls
       THEN /\ ~ HasUnparsableArgs(currentMessages)
            /\ pc' = "failed"
            /\ result' = Thrown("Timeout")
       ELSE UNCHANGED << pc, result >>
  /\ transport' = IF family = "google" THEN transport \ {id} ELSE transport
  /\ UNCHANGED << cfgVars, clientVars, routeVars, adapterVars, streamVars, clientGone, toolCallCount, currentMessages, totalUsage,
                  totalDuration, tools, llmCalls, calls, completionOrder,
                  turnUsages, finalUsage, finalDuration, now >>

(***************************************************************************)
(* The tool batch.                                                         *)
(***************************************************************************)
ToolCallReturns(i, r) ==
  /\ pc = "tools"
  /\ i \in 1 .. Len(calls)
  /\ calls[i].state = "pending"
  /\ calls' = [calls EXCEPT ![i] = Settled(ResultContent(r))]
  /\ completionOrder' = Append(completionOrder, i)
  /\ UNCHANGED << cfgVars, clientVars, routeVars, adapterVars, streamVars, clientGone, transport, pc, toolCallCount, currentMessages, totalUsage,
                  totalDuration, tools, llmCalls, timers, aborted, turnUsages,
                  result, finalUsage, finalDuration, now >>

ToolCallFails(i, cause) ==
  /\ pc = "tools"
  /\ i \in 1 .. Len(calls)
  /\ calls[i].state = "pending"
  /\ calls' = [calls EXCEPT ![i] =
                 Settled(ErrorContent(ToolErrorMessage(LastBatch[i].name, cause)))]
  /\ completionOrder' = Append(completionOrder, i)
  /\ UNCHANGED << cfgVars, clientVars, routeVars, adapterVars, streamVars, clientGone, transport, pc, toolCallCount, currentMessages, totalUsage,
                  totalDuration, tools, llmCalls, timers, aborted, turnUsages,
                  result, finalUsage, finalDuration, now >>

\* the 30 s timeout of BaseFastMCPClient.callTool (or its 10 s connect timeout)
ToolCallTimesOut(i) ==
  /\ pc = "tools"
  /\ serverType # "fastapi"
  /\ i \in 1 .. Len(calls)
  /\ calls[i].state = "pending"
  /\ calls' = [calls EXCEPT ![i] =
                 Settled(ErrorContent(McpErrorMessage(LastBatch[i].name,
                                                      "Tool execution timeout")))]
  /\ completionOrder' = Append(completionOrder, i)
  /\ UNCHANGED << cfgVars, clientVars, routeVars, adapterVars, streamVars, clientGone, transport, pc, toolCallCount, currentMessages, totalUsage,
                  totalDuration, tools, llmCalls, timers, aborted, turnUsages,
                  result, finalUsage, finalDuration, now >>

\* variant: the loop goes on as soon as one tool call of the batch has settled
PromiseAllResolves_First ==
  /\ pc = "tools"
  /\ \E i \in 1 .. Len(calls) : calls[i].state = "settled"
  /\ currentMessages' = currentMessages \o ToolResults(LastBatch, calls)
  /\ toolCallCount' = toolCallCount + 1
  /\ calls' = << >>
  /\ LoopHead(toolCallCount + 1, timers)
  /\ UNCHANGED << cfgVars, clientVars, routeVars, adapterVars, streamVars, clientGone, totalUsage, totalDuration, aborted, completionOrder,
                  turnUsages, finalUsage, finalDuration, now >>

\* await Promise.all(toolResultPromises) resumes the loop
PromiseAllResolves ==
  /\ pc = "tools"
  /\ \A i \in 1 .. Len(calls) : calls[i].state = "settled"
  /\ currentMessages' = currentMessages \o ToolResults(LastBatch, calls)
  /\ toolCallCount' = toolCallCount + 1
  /\ calls' = << >>
  /\ LoopHead(toolCallCount + 1, timers)
  /\ UNCHANGED << cfgVars, clientVars, routeVars, adapterVars, streamVars, clientGone, totalUsage, totalDuration, aborted, completionOrder,
                  turnUsages, finalUsage, finalDuration, now >>

(***************************************************************************)
(* After the loop has returned a StreamingResult: the adapter's            *)
(* finalUsagePromise / finalDurationPromise resolve and the loop's derived *)
(* promises add the terminal turn to the running totals.                   *)
(***************************************************************************)
\* variant: a terminal turn without usage rejects the derived promise
ProviderUsageResolves_NeedsUsage(u) ==
  /\ pc = "streaming"
  /\ finalUsage.state = "pending"
  /\ totalUsage' = AddUsage(totalUsage, u)
  /\ turnUsages' = Append(turnUsages, u)
  /\ finalUsage' = IF IsSome(u) THEN ResolvedUsage(totalUsage')
                   ELSE [state |-> "rejected", value |-> ZeroUsage]
  /\ UNCHANGED << cfgVars, clientVars, routeVars, adapterVars, streamVars, clientGone, transport, pc, toolCallCount, currentMessages, totalDuration,
                  tools, llmCalls, timers, aborted, calls, completionOrder,
                  result, finalDuration, now >>

ProviderUsageResolves(u) ==
  /\ pc = "streaming"
  /\ finalUsage.state = "pending"
  /\ totalUsage' = AddUsage(totalUsage, u)
  /\ turnUsages' = Append(turnUsages, u)
  /\ finalUsage' = ResolvedUsage(totalUsage')
  /\ UNCHANGED << cfgVars, clientVars, routeVars, adapterVars, streamVars, clientGone, transport, pc, toolCallCount, currentMessages, totalDuration,
                  tools, llmCalls, timers, aborted, calls, completionOrder,
                  result, finalDuration, now >>

ProviderDurationResolves(d) ==
  /\ pc = "streaming"
  /\ finalDuration.state = "pending"
  /\ totalDuration' = AddDuration(totalDuration, d)
  /\ finalDuration' = ResolvedDuration(totalDuration')
  /\ UNCHANGED << cfgVars, clientVars, routeVars, adapterVars, streamVars, clientGone, transport, pc, toolCallCount, currentMessages, totalUsage,
                  tools, llmCalls, timers, aborted, calls, completionOrder,
                  turnUsages, result, finalUsage, now >>

\* an abandoned provider request ends by itself: the Ollama adapter never
\* passes the signal on, so the request outlives the abort
AbandonedRequestEnds(id) ==
  /\ id \in transport
  /\ id \in aborted
  /\ transport' = transport \ {id}
  /\ UNCHANGED << cfgVars, clientVars, routeVars, adapterVars, streamVars, clientGone, pc, toolCallCount, currentMessages,
                  totalUsage, totalDuration, tools, llmCalls, timers, aborted,
                  calls, completionOrder, turnUsages, result, finalUsage,
                  finalDuration, now >>

\* the HTTP client drops the request while it is being served; the route
\* never looks at request.signal, so nothing else changes
ClientDisconnects ==
  /\ pc \in {"discover", "model", "tools", "streaming"}
  /\ ~ clientGone
  /\ clientGone' = TRUE
  /\ UNCHANGED << cfgVars, clientVars, routeVars, adapterVars, streamVars, pc, toolCallCount, currentMessages,
                  totalUsage, totalDuration, tools, llmCalls, timers, aborted,
                  calls, completionOrder, turnUsages, result, finalUsage,
                  finalDuration, now, transport >>

Next ==
  \/ \E m \in { << >>, << UserMessage >> } : Chat(m)
  \/ \E t \in { None, Some("schema") } : ToolsSchemaReturns(t)
  \/ ToolsSchemaTimesOut
  \/ \E fcs \in FunctionCalls, u \in UsageReports, d \in DurationReports,
        t \in 0 .. MaxNow : AnswerToolCalls(fcs, u, d, t)
  \/ \E u \in UsageReports, d \in DurationReports :
        AnswerFinal(Str("answer"), u, d)
  \/ \E first \in Chunks : AnswerStream(first)
  \/ AdapterFails
  \/ \E id \in timers : TimerFires(id)
  \/ \E i \in 1 .. MaxBatch, r \in ToolValues : ToolCallReturns(i, r)
  \/ \E i \in 1 .. MaxBatch, c \in ToolErrorCauses : ToolCallFails(i, c)
  \/ \E i \in 1 .. MaxBatch : ToolCallTimesOut(i)
  \/ PromiseAllResolves
  \/ \E u \in UsageReports : ProviderUsageResolves(u)
  \/ \E d \in DurationReports : ProviderDurationResolves(d)
  \/ \E id \in transport : AbandonedRequestEnds(id)
  \/ ClientDisconnects

Spec == Init /\ [][Next]_vars

(***************************************************************************)
(* Scheduling the runtime guarantees: a continuation that is ready runs, a *)
(* timer that stays armed fires.  Nothing obliges the provider or the tool *)
(* server to answer.                                                       *)
(***************************************************************************)
Fairness ==
  /\ WF_vars(\E m \in { << UserMessage >> } : Chat(m))
  /\ WF_vars(ToolsSchemaTimesOut)
  /\ WF_vars(\E id \in timers : TimerFires(id))
  /\ WF_vars(pc = "model" /\ HasUnparsableArgs(currentMessages) /\ AdapterFails)
  /\ WF_vars(\E i \in 1 .. MaxBatch : ToolCallTimesOut(i))
  /\ WF_vars(PromiseAllResolves)

FairSpec == Spec /\ Fairness

(***************************************************************************)
(* The streamed terminal turn: _generateChatStream in detail, the stream   *)
(* it hands out, and the multiplexer that frames it for the HTTP client.   *)
(***************************************************************************)
\* usage of the ProviderResponse an adapter builds for a stream without chunks
EmptyStreamUsage ==
  IF family = "ollama" THEN { Some(ZeroUsage) } ELSE UsageReports

\* usage the adapter's finalUsagePromise can resolve to
StreamUsageReports ==
  IF providerState = "failed" THEN { None } ELSE UsageReports \cup { None }

\* _generateChatStream settles: the adapter has awaited the first next() of
\* the stream iterator and decides on what it got
StreamAnswers(first, u, d, t) ==
  /\ isStreaming
  /\ IF first = None
       THEN /\ u \in EmptyStreamUsage
            /\ t = now
            /\ AnswerFinal(NullContent, u, d)
       ELSE IF Get(first).calls # << >>
              THEN AnswerToolCalls(Get(first).calls, u, d, t)
              ELSE /\ t = now
                   /\ AnswerStream(Get(first))

\* the provider sends one more chunk
ChunkArrives(ch) ==
  /\ pc = "streaming"
  /\ providerState = "sending"
  /\ Len(providerStream) < MaxChunks
  /\ providerStream' = Append(providerStream, ch)
  /\ UNCHANGED << cfgVars, clientVars, routeVars, adapterVars, loopVars, transport, providerState, pumped,
                  textStream, streamState, output, muxPc, deadlinePassed >>

\* the provider ends the stream
ProviderEnds ==
  /\ pc = "streaming"
  /\ providerState = "sending"
  /\ providerState' = "ended"
  /\ transport' = transport \ {llmCalls}
  /\ UNCHANGED << cfgVars, clientVars, routeVars, adapterVars, loopVars, providerStream, pumped, textStream,
                  streamState, output, muxPc, deadlinePassed >>

\* the provider stream breaks off
ProviderStreamFails ==
  /\ pc = "streaming"
  /\ providerState = "sending"
  /\ providerState' = "failed"
  /\ transport' = transport \ {llmCalls}
  /\ UNCHANGED << cfgVars, clientVars, routeVars, adapterVars, loopVars, providerStream, pumped, textStream,
                  streamState, output, muxPc, deadlinePassed >>

\* variant: a later chunk is put in front of the queue
Pump_Prepend ==
  /\ streamState = "open"
  /\ pumped < Len(providerStream)
  /\ pumped' = pumped + 1
  /\ textStream' = NonEmptyTexts(<< providerStream[pumped + 1] >>) \o textStream
  /\ UNCHANGED << cfgVars, clientVars, routeVars, adapterVars, loopVars, transport, providerStream, providerState,
                  streamState, output, muxPc, deadlinePassed >>

\* start() takes the next chunk from the iterator and enqueues its text,
\* whether or not anybody has read the earlier ones
Pump ==
  /\ streamState = "open"
  /\ pumped < Len(providerStream)
  /\ pumped' = pumped + 1
  /\ textStream' = textStream \o NonEmptyTexts(<< providerStream[pumped + 1] >>)
  /\ UNCHANGED << cfgVars, clientVars, routeVars, adapterVars, loopVars, transport, providerStream, providerState,
                  streamState, output, muxPc, deadlinePassed >>

\* the iterator reports done: controller.close()
PumpEnds ==
  /\ streamState = "open"
  /\ pumped = Len(providerStream)
  /\ providerState = "ended"
  /\ streamState' = "closed"
  /\ UNCHANGED << cfgVars, clientVars, routeVars, adapterVars, loopVars, transport, providerStream, providerState,
                  pumped, textStream, output, muxPc, deadlinePassed >>

\* the iterator throws: the stream is errored
PumpFails ==
  /\ streamState = "open"
  /\ pumped = Len(providerStream)
  /\ providerState = "failed"
  /\ streamState' = "errored"
  /\ UNCHANGED << cfgVars, clientVars, routeVars, adapterVars, loopVars, transport, providerStream, providerState,
                  pumped, textStream, output, muxPc, deadlinePassed >>

\* the adapter's finalUsagePromise resolves.  Ollama: finalUsageResolver is
\* called by start() when its loop is over.  Google: result.response
\* resolves once the provider has ended the stream.
StreamUsageResolves(u) ==
  /\ u \in StreamUsageReports
  /\ IF family = "ollama"
       THEN streamState \in {"closed", "errored"}
       ELSE providerState \in {"ended", "failed"}
  /\ ProviderUsageResolves(u)

Frame(type) ==
  [type |-> type, text |-> "", usage |-> ZeroUsage, duration |-> ZeroDuration]

\* the multiplexer reads one chunk of the stream and writes it as a text frame
MuxForwardsText ==
  /\ muxPc = "text"
  /\ streamState # "errored"
  /\ Len(output) < Len(textStream)
  /\ output' = Append(output, [Frame("text") EXCEPT
                                 !.text = textStream[Len(output) + 1]])
  /\ UNCHANGED << cfgVars, clientVars, routeVars, adapterVars, loopVars, transport, providerStream, providerState,
                  pumped, textStream, streamState, muxPc, deadlinePassed >>

\* the stream is drained: the multiplexer awaits final_usage and writes it
MuxEmitsUsage ==
  /\ muxPc = "text"
  /\ streamState = "closed"
  /\ Len(output) = Len(textStream)
  /\ finalUsage.state = "resolved"
  /\ output' = Append(output, [Frame("usage") EXCEPT !.usage = finalUsage.value])
  /\ muxPc' = "duration"
  /\ UNCHANGED << cfgVars, clientVars, routeVars, adapterVars, loopVars, transport, providerStream, providerState,
                  pumped, textStream, streamState, deadlinePassed >>

\* then it awaits final_duration, writes it and closes the output
MuxEmitsDuration ==
  /\ muxPc = "duration"
  /\ finalDuration.state = "resolved"
  /\ output' = Append(output, [Frame("duration") EXCEPT
                                 !.duration = finalDuration.value])
  /\ muxPc' = "closed"
  /\ UNCHANGED << cfgVars, clientVars, routeVars, adapterVars, loopVars, transport, providerStream, providerState,
                  pumped, textStream, streamState, deadlinePassed >>

\* the upstream stream errors: the output is closed without trailers
MuxClosesOnError ==
  /\ muxPc = "text"
  /\ streamState = "errored"
  /\ muxPc' = "closed"
  /\ UNCHANGED << cfgVars, clientVars, routeVars, adapterVars, loopVars, transport, providerStream, providerState,
                  pumped, textStream, streamState, output, deadlinePassed >>

\* timeout_ms has gone by since the terminal invocation began; its timer
\* was cleared when the adapter returned the StreamingResult
DeadlinePasses ==
  /\ pc = "streaming"
  /\ streamState = "open"
  /\ llmCalls \notin timers
  /\ ~ deadlinePassed
  /\ deadlinePassed' = TRUE
  /\ UNCHANGED << cfgVars, clientVars, routeVars, adapterVars, loopVars, transport, providerStream, providerState,
                  pumped, textStream, streamState, output, muxPc >>

StreamInit ==
  /\ Init
  /\ isStreaming
  /\ ~ mcpServerUrl
  /\ serverType = "fastapi"

StreamNext ==
  \/ \E m \in { << >>, << UserMessage >> } : Chat(m)
  \/ \E first \in { None } \cup { Some(ch) : ch \in Chunks },
        u \in UsageReports \cup { Some(ZeroUsage) }, d \in DurationReports,
        t \in 0 .. MaxNow : StreamAnswers(first, u, d, t)
  \/ AdapterFails
  \/ \E id \in timers : TimerFires(id)
  \/ \E ch \in Chunks : ChunkArrives(ch)
  \/ ProviderEnds
  \/ ProviderStreamFails
  \/ Pump
  \/ PumpEnds
  \/ PumpFails
  \/ \E u \in UsageReports \cup { None } : StreamUsageResolves(u)
  \/ \E d \in DurationReports : ProviderDurationResolves(d)
  \/ MuxForwardsText
  \/ MuxEmitsUsage
  \/ MuxEmitsDuration
  \/ MuxClosesOnError
  \/ DeadlinePasses

StreamSpec == StreamInit /\ [][StreamNext]_vars

(***************************************************************************)
(* The tool-client registry and the objects behind it: ToolClient, the     *)
(* FastMCP clients and their MCP transports.  Several operations run at    *)
(* once on them: list_tools and call_tool of chat requests, which obtain   *)
(* their ToolClient from the registry, and the connection test route,      *)
(* which constructs its own.  An action is the code one operation runs     *)
(* from the completion of one network wait to the start of the next: the   *)
(* awaits in between resume in the same turn of the event loop.            *)
(***************************************************************************)
loopAndStreamVars ==
  << cfgVars, loopVars, streamVars, transport, routeVars, adapterVars >>

Protocol(type) == IF type = "fastmcp-sse" THEN "sse" ELSE "streamablehttp"

NewToolClient(u) ==
  [serverUrl |-> u, toolsCache |-> "null", fastMCPClient |-> 0,
   serverTypeCache |-> "null"]

NewFastMCPClient(u, type) ==
  [serverUrl |-> u, protocolType |-> Protocol(type), client |-> 0,
   toolsCache |-> "null"]

\* owner "detector" is detectProtocolType's testClient, "client" a FastMCP client
NewTransport(u, owner) ==
  [url |-> u, owner |-> owner, connected |-> FALSE, open |-> TRUE]

SetCallers(c, cr) == callers' = [callers EXCEPT ![c] = cr]

\* the operation has its answer
Returns(c, cr, value) == SetCallers(c, [cr EXCEPT !.pc = "done", !.ret = value])

\* initializeClient up to its await: an existing this.client is handed out
\* as it is, otherwise a transport is constructed and connect is started
InitializeClient(c, cr, m, mcps, trs) ==
  IF mcps[m].client # 0
    THEN /\ mcpTransports' = trs
         /\ fastMCPClients' = mcps
         /\ SetCallers(c, [cr EXCEPT !.pc = "request", !.tr = mcps[m].client])
    ELSE LET id == Len(trs) + 1
         IN /\ mcpTransports' =
                 Append(trs, NewTransport(mcps[m].serverUrl, "client"))
            /\ fastMCPClients' = [mcps EXCEPT ![m].client = id]
            /\ SetCallers(c, [cr EXCEPT !.pc = "connect", !.tr = id])

\* what getToolsSchema / callTool / getServerType do once detectServerType
\* has settled on type ("failed" when it threw)
Proceed(c, cr, type, tcs, trs) ==
  LET t == cr.tc
  IN IF cr.op = "getServerType"
       THEN /\ toolClients' = tcs
            /\ mcpTransports' = trs
            /\ UNCHANGED fastMCPClients
            /\ Returns(c, cr, IF type = "failed" THEN "unknown" ELSE type)
     ELSE IF type \in {"fastapi", "failed"}
       THEN /\ toolClients' = tcs
            /\ mcpTransports' = trs
            /\ UNCHANGED fastMCPClients
            /\ SetCallers(c, [cr EXCEPT !.pc = "rest"])
     ELSE LET had == tcs[t].fastMCPClient # 0
              m == IF had THEN tcs[t].fastMCPClient
                   ELSE Len(fastMCPClients) + 1
              mcps == IF had THEN fastMCPClients
                      ELSE Append(fastMCPClients,
                                  NewFastMCPClient(tcs[t].serverUrl, type))
              tcs2 == [tcs EXCEPT ![t].fastMCPClient = m]
          IN IF cr.op = "getToolsSchema" /\ mcps[m].toolsCache = "schema"
               THEN /\ toolClients' = [tcs2 EXCEPT ![t].toolsCache = "schema"]
                    /\ mcpTransports' = trs
                    /\ fastMCPClients' = mcps
                    /\ Returns(c, cr, "schema")
               ELSE /\ toolClients' = tcs2
                    /\ InitializeClient(c, cr, m, mcps, trs)

\* the start of getToolsSchema, callTool or getServerType on client cr.tc
StartOp(c, cr, tcs) ==
  LET t == cr.tc
  IN IF cr.op = "getToolsSchema" /\ tcs[t].toolsCache = "schema"
       THEN /\ toolClients' = tcs
            /\ UNCHANGED << fastMCPClients, mcpTransports >>
            /\ Returns(c, cr, "schema")
     ELSE IF tcs[t].serverTypeCache # "null"
       THEN Proceed(c, cr, tcs[t].serverTypeCache, tcs, mcpTransports)
     ELSE /\ toolClients' = tcs
          /\ UNCHANGED fastMCPClients
          /\ mcpTransports' =
               Append(mcpTransports, NewTransport(tcs[t].serverUrl, "detector"))
          /\ SetCallers(c, [cr EXCEPT !.pc = "probe_mcp",
                                      !.tr = Len(mcpTransports) + 1])

\* operations are numbered in the order in which they start
NextToStart(c) ==
  /\ callers[c].pc = "idle"
  /\ c > 1 => callers[c - 1].pc # "idle"

\* variant: getToolClientInstance constructs a client on every lookup
ChatOperation_AlwaysNew(c, u, op) ==
  /\ UNCHANGED loopAndStreamVars
  /\ NextToStart(c)
  /\ LET t == Len(toolClients) + 1
         tcs == Append(toolClients, NewToolClient(u))
     IN /\ toolClientInstances' = [toolClientInstances EXCEPT ![u] = t]
        /\ StartOp(c, [IdleCaller EXCEPT !.kind = "chat", !.op = op, !.tc = t],
                   tcs)

\* getToolClientInstance(serverUrl) followed by the operation on the instance
ChatOperation(c, u, op) ==
  /\ UNCHANGED loopAndStreamVars
  /\ NextToStart(c)
  /\ LET has == toolClientInstances[u] # 0
         t == IF has THEN toolClientInstances[u] ELSE Len(toolClients) + 1
         tcs == IF has THEN toolClients
                ELSE Append(toolClients, NewToolClient(u))
     IN /\ toolClientInstances' = [toolClientInstances EXCEPT ![u] = t]
        /\ StartOp(c, [IdleCaller EXCEPT !.kind = "chat", !.op = op, !.tc = t],
                   tcs)

\* the connection test route: new ToolClient(url), then getToolsSchema
TestRequest(c, u) ==
  /\ UNCHANGED loopAndStreamVars
  /\ NextToStart(c)
  /\ UNCHANGED toolClientInstances
  /\ StartOp(c, [IdleCaller EXCEPT !.kind = "test", !.op = "getToolsSchema",
                                   !.tc = Len(toolClients) + 1],
             Append(toolClients, NewToolClient(u)))

\* ... and, when it got tools, getServerType on the same object
TestGetsServerType(c) ==
  /\ UNCHANGED loopAndStreamVars
  /\ callers[c].kind = "test"
  /\ callers[c].op = "getToolsSchema"
  /\ callers[c].pc = "done"
  /\ callers[c].ret = "schema"
  /\ UNCHANGED toolClientInstances
  /\ StartOp(c, [callers[c] EXCEPT !.op = "getServerType", !.ret = "none"],
             toolClients)

\* ... and, when it got no tools or getToolsSchema failed, the fallback:
\* a plain GET of the URL, whose outcome decides the answer
TestFallbackSettles(c, ok) ==
  /\ UNCHANGED loopAndStreamVars
  /\ callers[c].kind = "test"
  /\ callers[c].op = "getToolsSchema"
  /\ callers[c].pc = "done"
  /\ callers[c].ret = "undefined"
  /\ SetCallers(c, [callers[c] EXCEPT !.op = "fallback",
                                      !.ret = IF ok THEN "ok" ELSE "error"])
  /\ UNCHANGED << toolClientInstances, toolClients, fastMCPClients,
                  mcpTransports >>

\* the test route has answered the request of caller c
TestAnswered(c) ==
  /\ callers[c].kind = "test"
  /\ callers[c].pc = "done"
  /\ callers[c].op \in {"getServerType", "fallback"}

\* the body the test route answers with
TestResponse(c) ==
  IF callers[c].op = "getServerType"
    THEN [status |-> "ok",
          serverType |->
            IF callers[c].ret \in {"fastmcp-sse", "fastmcp-streamablehttp"}
              THEN "FastMCP"
            ELSE IF callers[c].ret = "fastapi" THEN "FastAPI"
            ELSE "Unknown"]
  ELSE IF callers[c].ret = "ok"
    THEN [status |-> "ok", serverType |-> "FastAPI (HTTP fallback)"]
  ELSE [status |-> "error", serverType |-> "unknown"]

\* detectServerType stores the type it found and returns it
Detected(c, type, trs) ==
  Proceed(c, callers[c], type,
          [toolClients EXCEPT ![callers[c].tc].serverTypeCache = type], trs)

\* variant: a failed connect goes straight to the <base>/tools probe
ProbeMcpSettles_SkipSse(c, ok) ==
  /\ UNCHANGED loopAndStreamVars
  /\ callers[c].pc = "probe_mcp"
  /\ ok => serverType = "fastmcp-streamablehttp"
  /\ UNCHANGED toolClientInstances
  /\ LET trs == [mcpTransports EXCEPT ![callers[c].tr].connected = ok,
                                      ![callers[c].tr].open = FALSE]
     IN IF ok
          THEN Detected(c, "fastmcp-streamablehttp", trs)
          ELSE /\ mcpTransports' = trs
               /\ SetCallers(c, [callers[c] EXCEPT !.pc = "probe_tools"])
               /\ UNCHANGED << toolClients, fastMCPClients >>

\* detectProtocolType: the test client's connect to <base>/mcp settles
ProbeMcpSettles(c, ok) ==
  /\ UNCHANGED loopAndStreamVars
  /\ callers[c].pc = "probe_mcp"
  /\ ok => serverType = "fastmcp-streamablehttp"
  /\ UNCHANGED toolClientInstances
  /\ LET trs == [mcpTransports EXCEPT ![callers[c].tr].connected = ok,
                                      ![callers[c].tr].open = FALSE]
     IN IF ok
          THEN Detected(c, "fastmcp-streamablehttp", trs)
          ELSE /\ mcpTransports' = trs
               /\ SetCallers(c, [callers[c] EXCEPT !.pc = "probe_sse"])
               /\ UNCHANGED << toolClients, fastMCPClients >>

\* detectProtocolType: GET <base>/sse settles
ProbeSseSettles(c, ok) ==
  /\ UNCHANGED loopAndStreamVars
  /\ callers[c].pc = "probe_sse"
  /\ ok => serverType = "fastmcp-sse"
  /\ UNCHANGED toolClientInstances
  /\ IF ok
       THEN Detected(c, "fastmcp-sse", mcpTransports)
       ELSE /\ SetCallers(c, [callers[c] EXCEPT !.pc = "probe_tools"])
            /\ UNCHANGED << toolClients, fastMCPClients, mcpTransports >>

\* detectServerType: GET <base>/tools settles
ProbeToolsSettles(c, ok) ==
  /\ UNCHANGED loopAndStreamVars
  /\ callers[c].pc = "probe_tools"
  /\ ok => serverType = "fastapi"
  /\ UNCHANGED toolClientInstances
  /\ IF ok
       THEN Detected(c, "fastapi", mcpTransports)
       ELSE /\ SetCallers(c, [callers[c] EXCEPT !.pc = "probe_basic"])
            /\ UNCHANGED << toolClients, fastMCPClients, mcpTransports >>

\* variant: the operation fails when detection has thrown
ProbeBasicSettles_Raises(c, ok) ==
  /\ UNCHANGED loopAndStreamVars
  /\ callers[c].pc = "probe_basic"
  /\ ok => serverType = "fastapi"
  /\ UNCHANGED toolClientInstances
  /\ IF ok
       THEN Detected(c, "fastapi", mcpTransports)
       ELSE /\ Returns(c, callers[c], "error")
            /\ UNCHANGED << toolClients, fastMCPClients, mcpTransports >>

\* detectServerType: GET <base> settles; when it fails too, detection throws
\* and nothing is stored
ProbeBasicSettles(c, ok) ==
  /\ UNCHANGED loopAndStreamVars
  /\ callers[c].pc = "probe_basic"
  /\ ok => serverType = "fastapi"
  /\ UNCHANGED toolClientInstances
  /\ IF ok
       THEN Detected(c, "fastapi", mcpTransports)
       ELSE Proceed(c, callers[c], "failed", toolClients, mcpTransports)

\* what the FastMCP operation of caller c leaves behind when it ends with
\* value: BaseFastMCPClient.getToolsSchema returns undefined on any error
\* and ToolClient stores what it got, callTool rethrows
FastMCPEnds(c, ok, mcps) ==
  LET t == callers[c].tc
      m == toolClients[t].fastMCPClient
  IN IF callers[c].op = "getToolsSchema"
       THEN /\ fastMCPClients' =
                 IF ok THEN [mcps EXCEPT ![m].toolsCache = "schema"] ELSE mcps
            /\ toolClients' =
                 [toolClients EXCEPT
                    ![t].toolsCache = IF ok THEN "schema" ELSE "undefined"]
            /\ Returns(c, callers[c], IF ok THEN "schema" ELSE "undefined")
       ELSE /\ fastMCPClients' = mcps
            /\ UNCHANGED toolClients
            /\ Returns(c, callers[c], IF ok THEN "result" ELSE "error")

\* initializeClient: connect wins the race, the request goes out
ConnectSucceeds(c) ==
  /\ UNCHANGED loopAndStreamVars
  /\ callers[c].pc = "connect"
  /\ mcpTransports' = [mcpTransports EXCEPT ![callers[c].tr].connected = TRUE]
  /\ SetCallers(c, [callers[c] EXCEPT !.pc = "request"])
  /\ UNCHANGED << toolClientInstances, toolClients, fastMCPClients >>

\* initializeClient: connect rejects (lost), or the 10 s timer wins the race
\* while connect is still under way; either way this.client is set to null
ConnectFails(c, lost) ==
  /\ UNCHANGED loopAndStreamVars
  /\ callers[c].pc = "connect"
  /\ mcpTransports' = [mcpTransports EXCEPT ![callers[c].tr].open = ~ lost]
  /\ UNCHANGED toolClientInstances
  /\ FastMCPEnds(c, FALSE,
       [fastMCPClients EXCEPT
          ![toolClients[callers[c].tc].fastMCPClient].client = 0])

\* a connect nobody waits for any more completes
AbandonedConnectCompletes(tr) ==
  /\ UNCHANGED loopAndStreamVars
  /\ mcpTransports[tr].owner = "client"
  /\ mcpTransports[tr].open
  /\ ~ mcpTransports[tr].connected
  /\ \A c \in Callers : ~ (callers[c].pc = "connect" /\ callers[c].tr = tr)
  /\ \A m \in DOMAIN fastMCPClients : fastMCPClients[m].client # tr
  /\ mcpTransports' = [mcpTransports EXCEPT ![tr].connected = TRUE]
  /\ UNCHANGED << toolClientInstances, toolClients, fastMCPClients, callers >>

\* listTools / callTool on the MCP client settles
RequestSettles(c, ok) ==
  /\ UNCHANGED loopAndStreamVars
  /\ callers[c].pc = "request"
  /\ UNCHANGED << toolClientInstances, mcpTransports >>
  /\ FastMCPEnds(c, ok, fastMCPClients)

\* GET <base>/tools or POST <base>/call settles
RestSettles(c, ok) ==
  /\ UNCHANGED loopAndStreamVars
  /\ callers[c].pc = "rest"
  /\ ok => serverType = "fastapi"
  /\ UNCHANGED << toolClientInstances, fastMCPClients, mcpTransports >>
  /\ IF callers[c].op = "getToolsSchema"
       THEN /\ toolClients' =
                 IF ok THEN [toolClients EXCEPT ![callers[c].tc].toolsCache =
                                                  "schema"]
                 ELSE toolClients
            /\ Returns(c, callers[c], IF ok THEN "schema" ELSE "undefined")
       ELSE /\ UNCHANGED toolClients
            /\ Returns(c, callers[c], IF ok THEN "result" ELSE "error")

ClientInit ==
  /\ Init
  /\ ~ isStreaming
  /\ mcpServerUrl
  /\ family = "ollama"
  /\ maxToolCalls = Some(1)

ClientNext ==
  \/ \E c \in Callers, u \in Urls, op \in {"getToolsSchema", "callTool"} :
       ChatOperation(c, u, op)
  \/ \E c \in Callers, u \in Urls : TestRequest(c, u)
  \/ \E c \in Callers : TestGetsServerType(c)
  \/ \E c \in Callers, ok \in BOOLEAN : TestFallbackSettles(c, ok)
  \/ \E c \in Callers, ok \in BOOLEAN : ProbeMcpSettles(c, ok)
  \/ \E c \in Callers, ok \in BOOLEAN : ProbeSseSettles(c, ok)
  \/ \E c \in Callers, ok \in BOOLEAN : ProbeToolsSettles(c, ok)
  \/ \E c \in Callers, ok \in BOOLEAN : ProbeBasicSettles(c, ok)
  \/ \E c \in Callers : ConnectSucceeds(c)
  \/ \E c \in Callers, lost \in BOOLEAN : ConnectFails(c, lost)
  \/ \E tr \in DOMAIN mcpTransports : AbandonedConnectCompletes(tr)
  \/ \E c \in Callers, ok \in BOOLEAN : RequestSettles(c, ok)
  \/ \E c \in Callers, ok \in BOOLEAN : RestSettles(c, ok)

ClientSpec == ClientInit /\ [][ClientNext]_vars

(***************************************************************************)
(* The chat route (app/api/chat/route.ts) and handleChat up to the call of *)
(* chatStreaming / chatNonStreaming: reading the body, the validation,     *)
(* parseModelSelection and createChatProvider.  A selector is a string     *)
(* over a two-letter alphabet, written as a tuple of its characters.       *)
(* model-service.ts defines parseModelSelection twice; definitionInForce   *)
(* says which of the two definitions the call in handleChat reaches.       *)
(***************************************************************************)
SelectorChars == {"o", ":"}
Selectors == UNION { [1 .. n -> SelectorChars] : n \in 0 .. MaxSelectorLen }
MessageInputs == {"missing", "notArray", "empty", "some"}
Requests ==
  [json : BOOLEAN, selectedModel : Selectors, messages : MessageInputs]
\* providers/<name>.ts exists for these names
KnownProviders == { << "o" >> }

\* String.prototype.indexOf(':'), counted from 1; 0 when there is no colon
RECURSIVE IndexOfColon(_)
IndexOfColon(str) ==
  IF str = << >> THEN 0
  ELSE IF Head(str) = ":" THEN 1
  ELSE LET k == IndexOfColon(Tail(str)) IN IF k = 0 THEN 0 ELSE k + 1

\* String.prototype.split(':')
RECURSIVE SplitOnColons(_)
SplitOnColons(str) ==
  LET k == IndexOfColon(str)
  IN IF k = 0 THEN << str >>
     ELSE << SubSeq(str, 1, k - 1) >> \o
          SplitOnColons(SubSeq(str, k + 1, Len(str)))

Rejected == [ok |-> FALSE, provider |-> << >>, model |-> << >>]

\* parseModelSelection, the definition at the top of the file
parseModelSelection(selectedValue) ==
  LET firstColonIndex == IndexOfColon(selectedValue)
  IN IF selectedValue = << >> THEN Rejected
     ELSE IF firstColonIndex <= 1 \/ firstColonIndex = Len(selectedValue)
       THEN Rejected
     ELSE [ok |-> TRUE,
           provider |-> SubSeq(selectedValue, 1, firstColonIndex - 1),
           model |-> SubSeq(selectedValue, firstColonIndex + 1,
                            Len(selectedValue))]

\* parseModelSelection, the definition further down in the file
parseModelSelection_Split(selectedValue) ==
  LET parts == SplitOnColons(selectedValue)
  IN IF Len(parts) # 2 THEN Rejected
     ELSE IF parts[1] = << >> \/ parts[2] = << >> THEN Rejected
     ELSE [ok |-> TRUE, provider |-> parts[1], model |-> parts[2]]

ParseInForce(selectedValue) ==
  IF definitionInForce = 1 THEN parseModelSelection(selectedValue)
  ELSE parseModelSelection_Split(selectedValue)

\* the catch block of the route: 400 for a TypeError, 500 for anything else
RouteCatches(error) ==
  [NoResponse EXCEPT !.status = IF error = "TypeError" THEN 400 ELSE 500,
                     !.error = error]

\* `await request.json()` settles; the route validates the body and calls
\* handleChat, which parses the selector and awaits createChatProvider
RouteReadsBody ==
  /\ routePc = "received"
  /\ IF ~ request.json
       THEN /\ response' = RouteCatches("SyntaxError")
            /\ routePc' = "done"
     ELSE IF \/ request.selectedModel = << >>
             \/ request.messages \in {"missing", "notArray"}
       THEN /\ response' = [NoResponse EXCEPT !.status = 400,
                                             !.error = "MissingParameters"]
            /\ routePc' = "done"
     ELSE LET sel == ParseInForce(request.selectedModel)
          IN IF ~ sel.ok
               THEN /\ response' = RouteCatches("TypeError")
                    /\ routePc' = "done"
               ELSE /\ response' = [NoResponse EXCEPT
                                      !.provider = sel.provider,
                                      !.model = sel.model]
                    /\ routePc' = "factory"
  /\ UNCHANGED << cfgVars, loopVars, streamVars, transport, clientVars,
                  adapterVars, request, definitionInForce >>

\* the dynamic import of createChatProvider settles; with a provider object
\* handleChat enters chatStreaming / chatNonStreaming, which test the list
RouteEntersChat ==
  /\ routePc = "factory"
  /\ IF response.provider \notin KnownProviders
       THEN /\ response' = [response EXCEPT !.status = 500,
                                            !.error = "UnsupportedProvider"]
            /\ routePc' = "done"
     ELSE IF request.messages = "empty"
       THEN /\ response' = [response EXCEPT !.status = 500,
                                            !.error = "EmptyMessages"]
            /\ routePc' = "done"
     ELSE /\ routePc' = "chat"
          /\ UNCHANGED response
  /\ UNCHANGED << cfgVars, loopVars, streamVars, transport, clientVars,
                  adapterVars, request, definitionInForce >>

RouteInit ==
  /\ CoreInit
  /\ ~ isStreaming
  /\ ~ mcpServerUrl
  /\ family = "ollama"
  /\ maxToolCalls = Some(1)
  /\ serverType = "fastapi"
  /\ request \in Requests
  /\ definitionInForce \in {1, 2}
  /\ routePc = "received"
  /\ response = NoResponse
  /\ callerMessages = << >>
  /\ systemPrompt = None

RouteNext ==
  \/ RouteReadsBody
  \/ RouteEntersChat

RouteSpec == RouteInit /\ [][RouteNext]_vars

(***************************************************************************)
(* What an adapter makes of the conversation when it is invoked: the       *)
(* Ollama adapter's buildMessagesForApi and formatMessagesForOllama, the   *)
(* Google adapter's mapMessagesToGoogleFormat and systemInstruction.  The  *)
(* loop's currentMessages is a shallow copy of the caller's list, so the   *)
(* first Len(callerMessages) entries of both are the same objects.         *)
(***************************************************************************)
SystemMessage(text) ==
  [role |-> "system", content |-> Str(text), tool_calls |-> << >>,
   tool_call_id |-> None]

InputMessages == { SystemMessage("be formal"), UserMessage }
Conversations ==
  UNION { [1 .. n -> InputMessages] : n \in 1 .. MaxMessages }
SystemPrompts == { None, Some("be brief") }

\* formatMessagesForOllama: role, `content ?? ''` and the names of the calls
FormatMessagesForOllama(msgs) ==
  [ i \in 1 .. Len(msgs) |->
      [role |-> msgs[i].role,
       content |-> IF msgs[i].content = NullContent THEN Str("")
                   ELSE msgs[i].content,
       calls |-> [ j \in 1 .. Len(msgs[i].tool_calls) |->
                     msgs[i].tool_calls[j].name ]] ]

\* the array buildMessagesForApi returns
BuildMessagesForApi(msgs) ==
  IF systemPrompt = None THEN msgs
  ELSE IF msgs # << >> /\ msgs[1].role = "system"
    THEN [msgs EXCEPT ![1].content = systemPrompt]
  ELSE << SystemMessage(Get(systemPrompt)) >> \o msgs

\* the objects of a list after buildMessagesForApi has run on a copy of it:
\* `firstMessage.content = this.config.systemPrompt` writes to the object
AfterBuildMessagesForApi(msgs) ==
  IF systemPrompt # None /\ msgs # << >> /\ msgs[1].role = "system"
    THEN [msgs EXCEPT ![1].content = systemPrompt]
    ELSE msgs

\* the function name the id-to-name map holds for a tool message at position
\* i: that of the latest earlier assistant tool call with the same id
FunctionNameFor(msgs, i) ==
  LET hits == { << k, j >> \in (1 .. i - 1) \X (1 .. MaxBatch) :
                  /\ msgs[k].role = "assistant"
                  /\ j <= Len(msgs[k].tool_calls)
                  /\ Some(msgs[k].tool_calls[j].id) = msgs[i].tool_call_id }
  IN IF hits = {} THEN None
     ELSE LET last == CHOOSE h \in hits :
                        \A g \in hits : g[1] < h[1] \/ (g[1] = h[1] /\ g[2] <= h[2])
          IN Some(msgs[last[1]].tool_calls[last[2]].name)

\* the Content one message is mapped to; None where the code yields null
GoogleContent(msgs, i) ==
  LET m == msgs[i]
  IN CASE m.role = "user" ->
            Some([role |-> "user",
                  parts |-> << IF m.content = NullContent THEN Str("")
                               ELSE m.content >>])
       [] m.role = "assistant" ->
            Some([role |-> "model",
                  parts |-> (IF m.content \in { NullContent, Str("") }
                               THEN << >> ELSE << m.content >>) \o
                            [ j \in 1 .. Len(m.tool_calls) |->
                                << "functionCall", m.tool_calls[j].name >> ]])
       [] m.role = "tool" ->
            IF FunctionNameFor(msgs, i) = None THEN None
            ELSE Some([role |-> "function",
                       parts |-> << << "functionResponse",
                                       Get(FunctionNameFor(msgs, i)),
                                       m.content >> >>])
       [] OTHER -> None

RECURSIVE MapFrom(_, _)
MapFrom(msgs, i) ==
  IF i > Len(msgs) THEN << >>
  ELSE (IF msgs[i].role = "system" \/ GoogleContent(msgs, i) = None
          THEN << >> ELSE << Get(GoogleContent(msgs, i)) >>)
       \o MapFrom(msgs, i + 1)

\* mapMessagesToGoogleFormat: system messages filtered out, the rest mapped
MapMessagesToGoogleFormat(msgs) == MapFrom(msgs, 1)

\* the adapter, just invoked, prepares its request up to the provider call
AdapterPreparesRequest ==
  /\ pc = "model"
  /\ apiRequest = NoApiRequest
  /\ IF family = "ollama"
       THEN /\ apiRequest' =
                 [messages |->
                    FormatMessagesForOllama(BuildMessagesForApi(currentMessages)),
                  systemInstruction |-> None]
            /\ currentMessages' = AfterBuildMessagesForApi(currentMessages)
            /\ callerMessages' =
                 SubSeq(AfterBuildMessagesForApi(currentMessages), 1,
                        Len(callerMessages))
       ELSE /\ apiRequest' =
                 [messages |-> MapMessagesToGoogleFormat(currentMessages),
                  systemInstruction |-> systemPrompt]
            /\ UNCHANGED << currentMessages, callerMessages >>
  /\ UNCHANGED << cfgVars, clientVars, routeVars, streamVars, systemPrompt,
                  pc, toolCallCount, totalUsage, totalDuration, tools,
                  llmCalls, timers, aborted, calls, completionOrder,
                  turnUsages, result, finalUsage, finalDuration, now,
                  clientGone, transport >>

AdapterInit ==
  /\ CoreInit
  /\ ~ isStreaming
  /\ ~ mcpServerUrl
  /\ maxToolCalls = Some(1)
  /\ serverType = "fastapi"
  /\ request = [json |-> TRUE, selectedModel |-> << "o", ":", "o" >>,
                messages |-> "some"]
  /\ definitionInForce = 1
  /\ routePc = "chat"
  /\ response = [NoResponse EXCEPT !.provider = << "o" >>, !.model = << "o" >>]
  /\ callerMessages \in Conversations
  /\ systemPrompt \in SystemPrompts

AdapterNext ==
  \/ Chat(callerMessages)
  \/ AdapterPreparesRequest

AdapterSpec == AdapterInit /\ [][AdapterNext]_vars

(***************************************************************************)
(* Derived notions used by the properties.                                 *)
(***************************************************************************)
Returned == pc \in {"done", "failed", "streaming"}
Failed(e) == pc = "failed" /\ result.error = e

IsBatch(m) == m.role = "assistant" /\ m.tool_calls # << >>
BatchPositions(msgs) == { i \in 1 .. Len(msgs) : IsBatch(msgs[i]) }

\* the batch at position i is the one being dispatched: its promises are
\* still awaited, or getToolClientInstance threw before any call was made
InFlight(i) ==
  /\ i = Len(currentMessages)
  /\ pc = "tools" \/ Failed("NoServerUrl")

IsErrorContent(c) == c # << >> /\ c[1] = "Error: "
HasErrorToolMessage(msgs) ==
  \E i \in 1 .. Len(msgs) : msgs[i].role = "tool" /\ IsErrorContent(msgs[i].content)

\* handleChat: in streaming mode it reads result.finalUsagePromise.then of
\* whatever chatStreaming returned, which throws a TypeError when the loop
\* returned a NonStreamingResult
HandleChat(r) ==
  IF r.kind = "content" /\ isStreaming THEN Thrown("TypeError") ELSE r

\* the status the chat route answers with once handleChat has settled
HttpStatus ==
  LET r == HandleChat(result) IN
  IF r.kind = "error"
    THEN IF r.error = "TypeError" THEN 400 ELSE 500
    ELSE 200

FrameRank(f) ==
  IF f.type = "text" THEN 0 ELSE IF f.type = "usage" THEN 1 ELSE 2

RECURSIVE TextsOf(_)
TextsOf(fs) ==
  IF fs = << >> THEN << >>
  ELSE TextsOf(SubSeq(fs, 1, Len(fs) - 1)) \o
       (IF fs[Len(fs)].type = "text" THEN << fs[Len(fs)].text >> ELSE << >>)

IsPrefix(a, b) == Len(a) <= Len(b) /\ a = SubSeq(b, 1, Len(a))

RECURSIVE SumUsage(_)
SumUsage(us) ==
  IF us = << >> THEN ZeroUsage
  ELSE LET rest == SumUsage(SubSeq(us, 1, Len(us) - 1))
           u == us[Len(us)]
       IN  IF IsSome(u)
             THEN [prompt_tokens |-> rest.prompt_tokens + u[1].prompt_tokens,
                   completion_tokens |->
                     rest.completion_tokens + u[1].completion_tokens,
                   total_tokens |-> rest.total_tokens + u[1].total_tokens]
             ELSE rest

(***************************************************************************)
(* C1.  The loop never invokes the adapter more than max_tool_calls times, *)
(* in streaming and in non-streaming mode, whatever the model and the      *)
(* tool server answer.                                                     *)
(***************************************************************************)
C1_ModelCallsBounded == llmCalls <= MAX_TOOL_CALLS

C1_Witness ==
  /\ llmCalls = MAX_TOOL_CALLS
  /\ llmCalls = 2
  /\ toolCallCount = 2
  /\ Failed("MaxIterationsExceeded")

C4_DeclaredOrder ==
  /\ pc = "tools" =>
       /\ Len(calls) = Len(LastBatch)
       /\ \A i \in 1 .. Len(calls) : calls[i].state \in {"pending", "settled"}
  /\ \A i \in BatchPositions(currentMessages) :
       ~ InFlight(i) /\ i < Len(currentMessages) =>
         \A j \in 1 .. Len(currentMessages[i].tool_calls) :
           /\ i + j <= Len(currentMessages)
           /\ currentMessages[i + j].tool_call_id =
                Some(currentMessages[i].tool_calls[j].id)
           /\ (currentMessages[i + j].content = ErrorContent(<< "SyntaxError" >>))
                <=> ~ JSONParseOk(currentMessages[i].tool_calls[j].args)

C4_Witness ==
  /\ completionOrder = << 2, 1 >>
  /\ pc # "tools"
  /\ Len(currentMessages) = 4
  /\ currentMessages[3].tool_call_id = Some(currentMessages[2].tool_calls[1].id)
  /\ currentMessages[4].tool_call_id = Some(currentMessages[2].tool_calls[2].id)
  /\ IsErrorContent(currentMessages[3].content)
  /\ ~ IsErrorContent(currentMessages[4].content)

C6_Original ==
  (pc = "failed" /\ HasErrorToolMessage(currentMessages)
     /\ toolCallCount < MAX_TOOL_CALLS) =>
    result.error \in {"Timeout", "AdapterError"}

(***************************************************************************)
(* C7.  As claimed: every request reaches Done or Failed, whatever the     *)
(* tool server does.                                                       *)
(***************************************************************************)
C7_Original == <>Returned

(***************************************************************************)
(* C8.  The usage a request reports is the component-wise sum of the usage *)
(* the adapter reported for every model turn: the usage returned in        *)
(* non-streaming mode, and the value finalUsagePromise resolves to in      *)
(* streaming mode.                                                         *)
(***************************************************************************)
C8_UsageIsSumOfTurns ==
  /\ pc = "done" => result.usage = SumUsage(turnUsages)
  /\ finalUsage.state = "resolved" => finalUsage.value = SumUsage(turnUsages)

C8_Witness ==
  /\ finalUsage.state = "resolved"
  /\ Len(turnUsages) = 2
  /\ IsSome(turnUsages[1]) /\ IsSome(turnUsages[2])
  /\ finalUsage.value.prompt_tokens = 2

(***************************************************************************)
(* C9.  As claimed: the usage of every completed response has              *)
(* total_tokens = prompt_tokens + completion_tokens.                       *)
(***************************************************************************)
C9_Original ==
  /\ pc = "done" =>
       result.usage.total_tokens =
         result.usage.prompt_tokens + result.usage.completion_tokens
  /\ finalUsage.state = "resolved" =>
       finalUsage.value.total_tokens =
         finalUsage.value.prompt_tokens + finalUsage.value.completion_tokens

(***************************************************************************)
(* C10.  As claimed: once the loop has returned or thrown, no deadline     *)
(* timer it armed is still pending.                                        *)
(***************************************************************************)
C10_Original == Returned => timers = {}

(***************************************************************************)
(* C11.  When the deadline timer of the invocation being awaited fires,    *)
(* its abort token is signalled and the loop fails with a timeout error;   *)
(* after that failure no model is invoked, no tool is dispatched and the   *)
(* conversation is left as it is; the route answers it with status 500.    *)
(***************************************************************************)
C11_TimeoutFails ==
  /\ [](Failed("Timeout") =>
          /\ llmCalls \in aborted
          /\ llmCalls \notin timers
          /\ calls = << >>
          /\ HttpStatus = 500)
  /\ [][(pc = "model" /\ llmCalls \in aborted') =>
          (pc' = "failed" /\ result'.error = "Timeout")]_vars
  /\ [][Failed("Timeout") =>
          /\ pc' = pc
          /\ llmCalls' = llmCalls
          /\ calls' = calls
          /\ currentMessages' = currentMessages]_vars

C11_Witness ==
  /\ Failed("Timeout")
  /\ toolCallCount = 1
  /\ llmCalls = 2
  /\ aborted = {2}

(***************************************************************************)
(* C12.  As claimed: once the abort token of an invocation is signalled,   *)
(* no provider request or stream read of that invocation is in flight.     *)
(***************************************************************************)
C12_Original == \A id \in aborted : id \notin transport

(***************************************************************************)
(* C13.  As claimed: once the request is cancelled while a tool batch is   *)
(* in flight, no tool call of that batch is outstanding.                   *)
(***************************************************************************)
C13_Original ==
  (clientGone /\ pc = "tools") =>
    \A i \in 1 .. Len(calls) : calls[i].state # "pending"

(***************************************************************************)
(* C14.  As claimed: once the deadline of the terminal invocation has      *)
(* passed while its text was being streamed, the stream is over: the       *)
(* adapter enqueues no further text and no usage or duration trailer is    *)
(* written to the output.                                                  *)
(***************************************************************************)
C14_Original ==
  [][deadlinePassed =>
       /\ textStream' = textStream
       /\ Len(output') > Len(output) => output'[Len(output')].type = "text"]_vars

C16_Original ==
  pc = "streaming" =>
    \A i \in 1 .. Len(providerStream) :
      providerStream[i].calls # << >> =>
        \E j \in 1 .. (i - 1) : providerStream[j] # EmptyChunk

(***************************************************************************)
(* C17.  The text stream of a terminal streaming turn holds the non-empty  *)
(* texts of the chunks the adapter has taken so far, the first chunk       *)
(* included, each once and in arrival order; when the stream is closed it  *)
(* holds those of the whole provider stream.                               *)
(***************************************************************************)
C17_TextStreamComplete ==
  /\ streamState # "none" =>
       textStream = NonEmptyTexts(SubSeq(providerStream, 1, pumped))
  /\ streamState = "closed" => textStream = NonEmptyTexts(providerStream)

C17_Witness ==
  /\ streamState = "closed"
  /\ providerStream = << TextChunk("he"), TextChunk("llo") >>
  /\ textStream = << "he", "llo" >>

(***************************************************************************)
(* C18.  As claimed: final_usage and final_duration are resolved only when *)
(* the text stream has ended and the consumer has read all of its text.    *)
(***************************************************************************)
C18_Original ==
  (finalUsage.state = "resolved" \/ finalDuration.state = "resolved") =>
    /\ streamState = "closed"
    /\ Len(TextsOf(output)) = Len(textStream)

(***************************************************************************)
(* C19.  As claimed: in streaming mode a provider stream without chunks    *)
(* ends the request successfully with an empty answer.                     *)
(***************************************************************************)
C19_Original ==
  (isStreaming /\ pc = "done" /\ result.content = Str("")) => HttpStatus = 200

\* C20: callers that use the same tool-server URL, whatever their
\* interleaving, use one MCP client and transport: of the transports that
\* FastMCP clients construct for one URL, at most one is ever connected.
C20_Original ==
  \A u \in Urls :
    Cardinality({ t \in DOMAIN mcpTransports :
                    /\ mcpTransports[t].url = u
                    /\ mcpTransports[t].owner = "client"
                    /\ mcpTransports[t].connected }) <= 1

\* C21: protocol detection runs at most once per tool-server URL, whatever
\* the sequence and interleaving of list_tools, call_tool and connection
\* tests on it: every run of detectProtocolType constructs one test
\* transport, so at most one such transport exists per URL.
C21_Original ==
  \A u \in Urls :
    Cardinality({ t \in DOMAIN mcpTransports :
                    /\ mcpTransports[t].url = u
                    /\ mcpTransports[t].owner = "detector" }) <= 1

\* the probe of a detection that caller c is waiting for, 0 when none
ProbeNo(c) ==
  CASE callers[c].pc = "probe_mcp" -> 1
    [] callers[c].pc = "probe_sse" -> 2
    [] callers[c].pc = "probe_tools" -> 3
    [] callers[c].pc = "probe_basic" -> 4
    [] OTHER -> 0

\* the variant a successful probe selects
ProbeVariant(n) ==
  CASE n = 1 -> "fastmcp-streamablehttp"
    [] n = 2 -> "fastmcp-sse"
    [] OTHER -> "fastapi"

\* C22: detection tries the probes in the order StreamableHTTP connect,
\* GET /sse, GET /tools, GET /: a detection starts with the first probe, a
\* later probe is awaited only by a caller whose previous probe has just
\* failed, a detection that ends before the last probe has failed stores the
\* variant of the probe that answered, and when the last probe fails nothing
\* is stored and the detection has failed (the caller falls back to plain
\* HTTP, or reports "unknown").
C22_ProbeOrder ==
  [][\A c \in Callers :
       LET n == ProbeNo(c)
           n2 == ProbeNo(c)'
           t == callers[c].tc
       IN /\ (n2 # 0 /\ n2 # n) => n2 = n + 1
          /\ (n # 0 /\ n2 = 0) =>
                \/ toolClients'[t].serverTypeCache = ProbeVariant(n)
                \/ /\ n = 4
                   /\ toolClients'[t].serverTypeCache =
                        toolClients[t].serverTypeCache
                   /\ \/ callers'[c].pc = "rest"
                      \/ callers'[c].ret = "unknown"]_vars

C22_Witness ==
  \E t \in DOMAIN toolClients : toolClients[t].serverTypeCache = "fastmcp-sse"

\* C23: the tools-schema cache of a tool client is write-once: once a tool
\* list is stored in it, no step of any list_tools call, however the calls
\* interleave, changes the stored value.
C23_Original ==
  [][\A t \in DOMAIN toolClients :
       toolClients[t].toolsCache = "schema" =>
         toolClients'[t].toolsCache = "schema"]_vars

\* C24: a failed tool discovery never fails the chat request: the wait for
\* getToolsSchema ends only by the loop invoking the model, the request has
\* no error then, and whenever a tool server is configured and the model is
\* being invoked the tools offered are the discovered list or none at all.
C24_DiscoveryFailureTolerated ==
  [][pc = "discover" /\ pc' # "discover" =>
       /\ pc' = "model"
       /\ llmCalls' = llmCalls + 1
       /\ llmCalls' \in transport'
       /\ result' = NoResult
       /\ tools' \in { None, Some("schema") }]_vars

\* the model is being invoked without tools although a tool server is set
C24_Witness ==
  /\ mcpServerUrl
  /\ pc = "model"
  /\ tools = None
  /\ llmCalls \in transport

C26_Original ==
  (routePc # "received" /\ request.json /\ request.messages = "empty"
     /\ response.provider \in KnownProviders) =>
    /\ routePc # "chat"
    /\ routePc = "done" => response.status = 400

\* C27: the chat endpoint answers 400 exactly for malformed requests: a
\* request it has answered without running the loop, for a provider that
\* exists, has status 400 if its body is not valid JSON, its selector is not
\* of the form provider:model or its messages are missing, not a list or
\* empty, and has no other defect to be answered for.
C27_Original ==
  (routePc = "done" /\ response.error # "UnsupportedProvider") =>
    LET sel == request.selectedModel
        colons == { i \in 1 .. Len(sel) : sel[i] = ":" }
        first == CHOOSE i \in colons : \A j \in colons : i <= j
        malformed == \/ ~ request.json
                     \/ colons = {}
                     \/ sel[1] = ":"
                     \/ first = Len(sel)
                     \/ request.messages # "some"
    IN malformed /\ response.status = 400

\* C29: every tool call id is unique within a conversation: no two tool
\* calls the loop has appended, in one batch or in different iterations,
\* carry the same id.
C29_Original ==
  \A i, k \in 1 .. Len(currentMessages) :
    \A j \in 1 .. Len(currentMessages[i].tool_calls),
       l \in 1 .. Len(currentMessages[k].tool_calls) :
      currentMessages[i].tool_calls[j].id = currentMessages[k].tool_calls[l].id
        => (i = k /\ j = l)

\* C28: running the loop never changes a message that is already in the
\* conversation: the caller's list keeps its length and each of its
\* messages keeps its role and content.
C28_Original == [][callerMessages' = callerMessages]_vars

\* C30: the Gemini-family adapter removes every system message from the
\* outgoing contents and lifts its text into the request's
\* systemInstruction.
C30_Original ==
  (family = "google" /\ apiRequest # NoApiRequest) =>
    /\ \A k \in 1 .. Len(apiRequest.messages) :
         apiRequest.messages[k].role # "system"
    /\ \A i \in 1 .. Len(currentMessages) :
         currentMessages[i].role = "system" =>
           apiRequest.systemInstruction = currentMessages[i].content

(***************************************************************************)
(* C31.  Across iterations the loop is strictly sequential: while a model  *)
(* invocation is awaited no tool call is outstanding; the loop leaves the  *)
(* wait for a batch, and invokes the model again, only when every tool     *)
(* call of that batch has settled and no earlier invocation's provider     *)
(* request is in flight; at most one provider request of the request is in *)
(* flight at any time.                                                     *)
(***************************************************************************)
C31_StrictlySequential ==
  /\ [](/\ pc \in {"discover", "model"} =>
             \A i \in 1 .. Len(calls) : calls[i].state # "pending"
        /\ Cardinality(transport) <= 1
        /\ pc = "tools" => transport = {})
  /\ [][(pc = "tools" /\ pc' # "tools") =>
          \A i \in 1 .. Len(calls) : calls[i].state = "settled"]_vars
  /\ [][llmCalls' # llmCalls =>
          /\ llmCalls' = llmCalls + 1
          /\ pc # "tools" \/ \A i \in 1 .. Len(calls) : calls[i].state = "settled"
          /\ transport = {}
          /\ transport' = {llmCalls'}]_vars

C31_Witness ==
  /\ pc = "model"
  /\ llmCalls = 2
  /\ transport = {2}
  /\ Len(currentMessages) = 4
  /\ completionOrder = << >>
  /\ currentMessages[3].role = "tool" /\ currentMessages[4].role = "tool"

(***************************************************************************)
(* C32.  The deadline is per model invocation: every invocation arms a     *)
(* timer and an abort token of its own; no timer is armed while tools are  *)
(* discovered or called; while the loop runs, the only timer armed is the  *)
(* one of the invocation being awaited and no token has been signalled;    *)
(* and a timer that fires changes the course of the loop only if it is the *)
(* timer of the invocation being awaited.                                  *)
(***************************************************************************)
C32_DeadlinePerInvocation ==
  /\ [](/\ pc \in {"discover", "tools"} => timers = {}
        /\ pc = "model" => timers = {llmCalls}
        /\ pc \in {"discover", "model", "tools"} => aborted = {}
        /\ aborted \subseteq 1 .. llmCalls)
  /\ [][llmCalls' # llmCalls =>
          /\ timers' = {llmCalls'}
          /\ llmCalls' \notin timers
          /\ llmCalls' \notin aborted']_vars
  /\ [][\A id \in aborted' \ aborted :
          /\ id \in timers
          /\ aborted' = aborted \cup {id}
          /\ (pc' # pc \/ result' # result) => (pc = "model" /\ id = llmCalls)]_vars

C32_Witness ==
  /\ pc = "model"
  /\ llmCalls = 2
  /\ timers = {2}
  /\ aborted = {}
  /\ now = 1
  /\ mcpServerUrl

(***************************************************************************)
(* C33.  Every lookup of a URL in the tool-client registry yields the      *)
(* client registered for that URL, so all operations of chat requests on   *)
(* one URL run on the identical instance; a client is constructed by a     *)
(* lookup only when the URL has no entry yet; and an entry, once made, is  *)
(* never removed or replaced.                                              *)
(***************************************************************************)
C33_RegistryIdentity ==
  /\ [](/\ \A u \in Urls :
             toolClientInstances[u] # 0 =>
               /\ toolClientInstances[u] \in 1 .. Len(toolClients)
               /\ toolClients[toolClientInstances[u]].serverUrl = u
        /\ \A c \in Callers :
             callers[c].kind = "chat" =>
               callers[c].tc = toolClientInstances[toolClients[callers[c].tc].serverUrl])
  /\ [][\A u \in Urls :
          /\ toolClientInstances[u] # 0 =>
               toolClientInstances'[u] = toolClientInstances[u]
          /\ toolClientInstances'[u] # toolClientInstances[u] =>
               /\ toolClientInstances'[u] = Len(toolClients) + 1
               /\ Len(toolClients') = Len(toolClients) + 1]_vars
  /\ [][\A c \in Callers :
          (callers[c].kind = "none" /\ callers'[c].kind = "chat"
             /\ toolClientInstances[toolClients'[callers'[c].tc].serverUrl] # 0) =>
            Len(toolClients') = Len(toolClients)]_vars

C33_Witness ==
  /\ callers[1].kind = "chat"
  /\ callers[2].kind = "chat"
  /\ callers[1].tc = callers[2].tc
  /\ callers[1].tc = toolClientInstances["http://mcp-a"]
  /\ callers[1].pc = "done"
  /\ Len(toolClients) = 1

(***************************************************************************)
(* C34.  As claimed: tool calls are dispatched only while fewer than       *)
(* max_tool_calls batches have been run, and every batch the loop has      *)
(* executed is followed by a model invocation that receives its results:   *)
(* when the loop has ended, it has invoked the model more often than it    *)
(* has executed batches.                                                   *)
(***************************************************************************)
C34_Original ==
  /\ pc = "tools" => toolCallCount < MAX_TOOL_CALLS
  /\ (Returned /\ ~ Failed("NoServerUrl")
        /\ BatchPositions(currentMessages) # {}) =>
       llmCalls > Cardinality(BatchPositions(currentMessages))

(***************************************************************************)
(* C35.  As claimed: whatever the probed server does, the connection test  *)
(* route answers with a serverType that is one of "FastMCP", "FastAPI",    *)
(* "FastAPI (HTTP fallback)" and "unknown", and with status 'ok' or        *)
(* 'error'.                                                                *)
(***************************************************************************)
C35_Original ==
  \A c \in Callers :
    TestAnswered(c) =>
      /\ TestResponse(c).serverType \in
           {"FastMCP", "FastAPI", "FastAPI (HTTP fallback)", "unknown"}
      /\ TestResponse(c).status \in {"ok", "error"}

(***************************************************************************)
(* C36.  As claimed: a list_tools or call_tool request is issued on an MCP *)
(* client only after its connect has completed successfully, however the   *)
(* operations on one client interleave.                                    *)
(***************************************************************************)
C36_Original ==
  \A c \in Callers :
    callers[c].pc = "request" => mcpTransports[callers[c].tr].connected

(***************************************************************************)
(* C37.  With no tool-server URL configured, a model response that carries *)
(* tool calls makes the loop fail at once: no tool call is issued, no tool *)
(* message (hence no "Error: ..." message) is appended after the           *)
(* assistant message, and once the loop has failed this way the model is   *)
(* not invoked again and the conversation stays as it is.                  *)
(***************************************************************************)
C37_NoUrlFails ==
  /\ [](~ mcpServerUrl =>
          /\ pc # "tools"
          /\ calls = << >>
          /\ \A i \in 1 .. Len(currentMessages) : currentMessages[i].role # "tool"
          /\ BatchPositions(currentMessages) # {} =>
               /\ Failed("NoServerUrl")
               /\ BatchPositions(currentMessages) = {Len(currentMessages)}
               /\ llmCalls = 1)
  /\ [](Failed("NoServerUrl") =>
          ~ mcpServerUrl /\ IsBatch(currentMessages[Len(currentMessages)]))
  /\ [][Failed("NoServerUrl") =>
          /\ pc' = pc
          /\ result' = result
          /\ llmCalls' = llmCalls
          /\ currentMessages' = currentMessages]_vars

C37_Witness ==
  /\ Failed("NoServerUrl")
  /\ ~ mcpServerUrl
  /\ llmCalls = 1
  /\ Len(currentMessages) = 2
  /\ Len(currentMessages[2].tool_calls) = 2
  /\ maxToolCalls = Some(2)

\* caller c starts operation op in this step
Starts(c, op) ==
  /\ callers[c].op # op
  /\ callers'[c].op = op

(***************************************************************************)
(* C38.  As claimed: while no variant has been detected for a client,      *)
(* every list_tools and every call_tool on it runs detection again.        *)
(***************************************************************************)
C38_Original ==
  [][\A c \in Callers :
       (\E op \in {"getToolsSchema", "callTool"} : Starts(c, op))
         /\ toolClients'[callers'[c].tc].serverTypeCache = "null"
       => callers'[c].pc = "probe_mcp"]_vars

(***************************************************************************)
(* C38, amended.  A failed detection is never stored: the type cache holds *)
(* nothing or the variant the server answered for.  While it holds         *)
(* nothing, every call_tool, and every list_tools that is not answered     *)
(* from the client's tools cache, runs detection again; when the last      *)
(* probe of a detection has settled, list_tools and call_tool go on with   *)
(* the plain-HTTP request instead of failing; and a list_tools never ends  *)
(* without a request to the server unless it returns a tool list, so a     *)
(* failed discovery is attempted again by the next one.                    *)
(***************************************************************************)
C38_FailedDetectionNotCached ==
  /\ [](\A t \in 1 .. Len(toolClients) :
          toolClients[t].serverTypeCache \in {"null", serverType})
  /\ [][\A c \in Callers :
          /\ (\E op \in {"getToolsSchema", "callTool"} : Starts(c, op))
               /\ toolClients'[callers'[c].tc].serverTypeCache = "null"
               /\ ~ (callers'[c].op = "getToolsSchema"
                       /\ toolClients'[callers'[c].tc].toolsCache = "schema")
             => callers'[c].pc = "probe_mcp"
          /\ (callers[c].pc = "probe_basic" /\ callers[c].op \in {"getToolsSchema", "callTool"})
               /\ callers'[c] # callers[c]
             => callers'[c].pc = "rest"
          /\ (Starts(c, "getToolsSchema") /\ callers'[c].pc = "done")
             => callers'[c].ret = "schema"]_vars

C38_Witness ==
  /\ callers[1].pc = "done"
  /\ callers[1].ret \in {"undefined", "error"}
  /\ callers[2].pc = "rest"
  /\ callers[2].tc = callers[1].tc
  /\ callers[1].op \in {"getToolsSchema", "callTool"}
  /\ toolClients[callers[2].tc].serverTypeCache = "null"
  /\ Cardinality({ tr \in 1 .. Len(mcpTransports) :
                     mcpTransports[tr].owner = "detector" }) = 2

(***************************************************************************)
(* C39.  In streaming mode, when the adapter's usage (duration) promise    *)
(* settles, the loop's final_usage (final_duration) resolves to the        *)
(* running totals, with the terminal turn added when the adapter supplied  *)
(* it and with the totals of the earlier turns alone when it did not; the  *)
(* derived promises are never rejected as long as the adapter's promises   *)
(* are not, and they are handed out only with a streaming result.          *)
(***************************************************************************)
C39_FinalTotalsResolve ==
  /\ [](/\ finalUsage.state \in {"none", "pending", "resolved"}
        /\ finalDuration.state \in {"none", "pending", "resolved"}
        /\ finalUsage.state # "none" <=> pc = "streaming"
        /\ finalDuration.state # "none" <=> pc = "streaming"
        /\ finalUsage.state = "resolved" => finalUsage.value = totalUsage
        /\ finalDuration.state = "resolved" => finalDuration.value = totalDuration)
  /\ [][/\ (finalUsage.state = "pending" /\ turnUsages' # turnUsages) =>
             /\ finalUsage'.state = "resolved"
             /\ finalUsage'.value =
                  AddUsage(totalUsage, turnUsages'[Len(turnUsages')])
             /\ turnUsages'[Len(turnUsages')] = None =>
                  finalUsage'.value = SumUsage(turnUsages)
        /\ finalDuration'.state # finalDuration.state =>
             \/ finalDuration'.state = "pending"
             \/ /\ finalDuration'.state = "resolved"
                /\ finalDuration'.value \in
                     { AddDuration(totalDuration, d) : d \in DurationReports }]_vars

C39_Witness ==
  /\ finalUsage.state = "resolved"
  /\ finalDuration.state = "resolved"
  /\ Len(turnUsages) = 2
  /\ IsSome(turnUsages[1])
  /\ turnUsages[2] = None
  /\ finalUsage.value = Get(turnUsages[1])
  /\ finalDuration.value = ZeroDuration

====
